---- MODULE Spec2Model ----
(***************************************************************************)
(* graze: load_from_path, load_or_default and load_or_write_default        *)
(* (src/src/lib.rs) run against one filesystem path.                       *)
(*                                                                         *)
(* The path's filesystem state is the only state the library touches.  The *)
(* two-step operations are split at the point where the code goes back to  *)
(* the filesystem (between path.exists() and the read or write), so that   *)
(* another actor can act in between.  Caller-supplied closures             *)
(* (deserializer, serializer, default producer) are inputs drawn from      *)
(* small sets.                                                             *)
(***************************************************************************)
EXTENDS Integers, Sequences, FiniteSets, TLC

\* Configuration values are Config { range } with range in 0..MaxVal.
MaxVal == 1
\* Largest number of bytes the volume lets the file at the path hold.
MaxSpace == 3

Values == 0..MaxVal

\* Bytes used by the modelled formats.
ByteR == 114
ByteEq == 61
ByteZero == 48
ByteFF == 255

Deserializers == {"toml", "bare", "zero"}
Serializers == {"toml", "bin"}

VARIABLES fs, pc, op, args, existsResult, before, result, fx, interfered, prev

vars == <<fs, pc, op, args, existsResult, before, result, fx, interfered, prev>>

----------------------------------------------------------------------------
\* Results: std::result::Result<T, ConfigurationError<E>>

Ok(v) == [tag |-> "Ok", val |-> v]
Io(kind) == [tag |-> "Io", io |-> kind]
DeserializeErr(e) == [tag |-> "Deserialize", e |-> e]
NoResult == [tag |-> "none"]

----------------------------------------------------------------------------
\* Caller-supplied closures

\* |c| toml::to_string(c).unwrap() renders "r=<digit>"; the "bin" serializer
\* renders a binary form that starts with a byte that is not UTF-8.
Serialize(ser, v) ==
  IF ser = "toml" THEN <<ByteR, ByteEq, ByteZero + v>>
  ELSE <<ByteFF, ByteZero + v>>

IsDigit(b) == b >= ByteZero /\ b <= ByteZero + 9

TomlShape(s, i) ==
  /\ i <= Len(s)
  /\ CASE i = 1 -> s[i] = ByteR
       [] i = 2 -> s[i] = ByteEq
       [] i = 3 -> IsDigit(s[i])
       [] OTHER -> FALSE

\* Index of the first byte at which s stops being "r=<digit>" (4: trailing
\* bytes, Len(s) + 1: input ended early).
TomlFirstBad(s) ==
  IF \E i \in 1..3 : ~TomlShape(s, i)
  THEN CHOOSE i \in 1..3 : ~TomlShape(s, i) /\ \A j \in 1..(i - 1) : TomlShape(s, j)
  ELSE 4

\* |s| toml::from_str(s): Ok(range) or the parser's error (E is a record);
\* the "bare" deserializer wants a single digit and fails with the length
\* of what it was given (E is a number); the "zero" deserializer ignores
\* its input (|_| Ok(Config::default())).
Deserialize(de, s) ==
  IF de = "zero" THEN [ok |-> TRUE, val |-> 0]
  ELSE IF de = "bare"
       THEN IF Len(s) = 1 /\ IsDigit(s[1])
            THEN [ok |-> TRUE, val |-> s[1] - ByteZero]
            ELSE [ok |-> FALSE, err |-> Len(s)]
  ELSE IF Len(s) = 3 /\ \A i \in 1..3 : TomlShape(s, i)
       THEN [ok |-> TRUE, val |-> s[3] - ByteZero]
       ELSE [ok |-> FALSE, err |-> [by |-> "toml", at |-> TomlFirstBad(s)]]

----------------------------------------------------------------------------
\* The filesystem at the path (std::fs, std::path::Path)

ValidUtf8(s) == \A i \in 1..Len(s) : s[i] < 128

Prefix(s, n) == [i \in 1..n |-> s[i]]

Min(a, b) == IF a < b THEN a ELSE b

\* fs::metadata(path): the error it returns, "none" on success.
metadata(p) ==
  IF ~p.searchable THEN "PermissionDenied"
  ELSE IF p.kind = "absent" THEN "NotFound"
  ELSE "none"

\* Path::exists is fs::metadata(path).is_ok(): every error reads as "absent".
exists(p) == metadata(p) = "none"

\* fs::read_to_string(path)
read_to_string(p) ==
  IF ~p.searchable THEN [err |-> "PermissionDenied", str |-> <<>>]
  ELSE IF p.kind = "absent" THEN [err |-> "NotFound", str |-> <<>>]
  ELSE IF p.kind = "dir" THEN [err |-> "IsADirectory", str |-> <<>>]
  ELSE IF ~p.readable THEN [err |-> "PermissionDenied", str |-> <<>>]
  ELSE IF ~ValidUtf8(p.content) THEN [err |-> "InvalidData", str |-> <<>>]
  ELSE [err |-> "none", str |-> p.content]

\* fs::write(path, bytes) is File::create(path)?.write_all(bytes): the file
\* is created or truncated first, then filled as far as the volume allows.
\* A file the call creates is readable by its creator.
write(p, bytes) ==
  IF ~p.searchable THEN [err |-> "PermissionDenied", fs |-> p, created |-> FALSE]
  ELSE IF p.kind = "dir" THEN [err |-> "IsADirectory", fs |-> p, created |-> FALSE]
  ELSE IF ~p.writable THEN [err |-> "PermissionDenied", fs |-> p, created |-> FALSE]
  ELSE [err |-> IF Len(bytes) > p.space THEN "StorageFull" ELSE "none",
        fs |-> [p EXCEPT !.kind = "file",
                         !.content = Prefix(bytes, Min(Len(bytes), p.space)),
                         !.readable = IF p.kind = "file" THEN p.readable ELSE TRUE],
        created |-> TRUE]

----------------------------------------------------------------------------
\* Effects of one call: which filesystem calls and closures ran.

NoFx ==
  [statErr |-> "none", reads |-> 0, readErr |-> "none", des |-> 0,
   dflts |-> 0, sers |-> 0, writeCalls |-> 0, creates |-> 0, writeErr |-> "none"]

\* Variant: a deserializer error is reported as an I/O error.
load_from_path_as_io(p, de, f) ==
  LET r == read_to_string(p) IN
  IF r.err # "none"
  THEN [fs |-> p, result |-> Io(r.err),
        fx |-> [f EXCEPT !.reads = @ + 1, !.readErr = r.err]]
  ELSE LET d == Deserialize(de, r.str) IN
       [fs |-> p,
        result |-> IF d.ok THEN Ok(d.val) ELSE Io("InvalidData"),
        fx |-> [f EXCEPT !.reads = @ + 1, !.des = @ + 1]]

\* Variant: a file that cannot be read is deserialized as empty content
\* (fs::read_to_string(path).unwrap_or_default()).
load_from_path_unwrap_or_default(p, de, f) ==
  LET r == read_to_string(p)
      d == Deserialize(de, r.str)
  IN [fs |-> p,
      result |-> IF d.ok THEN Ok(d.val) ELSE DeserializeErr(d.err),
      fx |-> [f EXCEPT !.reads = @ + 1, !.readErr = r.err, !.des = @ + 1]]

\* load_from_path: read the whole file, then hand it to the deserializer.
load_from_path(p, de, f) ==
  LET r == read_to_string(p) IN
  IF r.err # "none"
  THEN [fs |-> p, result |-> Io(r.err),
        fx |-> [f EXCEPT !.reads = @ + 1, !.readErr = r.err]]
  ELSE LET d == Deserialize(de, r.str) IN
       [fs |-> p,
        result |-> IF d.ok THEN Ok(d.val) ELSE DeserializeErr(d.err),
        fx |-> [f EXCEPT !.reads = @ + 1, !.des = @ + 1]]

\* Variant: the default is also written to the path, as
\* load_or_write_default does.
load_or_default_persisting(p, ex, de, d, f) ==
  IF ex THEN load_from_path(p, de, f)
  ELSE LET w == write(p, Serialize("toml", d)) IN
       [fs |-> w.fs, result |-> Ok(d),
        fx |-> [f EXCEPT !.dflts = @ + 1, !.sers = @ + 1, !.writeCalls = @ + 1,
                         !.creates = @ + (IF w.created THEN 1 ELSE 0),
                         !.writeErr = w.err]]

\* Variant: a file that vanished after the existence check falls back to
\* the default.
load_or_default_fallback(p, ex, de, d, f) ==
  LET o == IF ex THEN load_from_path(p, de, f)
           ELSE [fs |-> p, result |-> Io("NotFound"), fx |-> f]
  IN IF o.result.tag = "Io" /\ o.result.io = "NotFound"
     THEN [fs |-> p, result |-> Ok(d), fx |-> [o.fx EXCEPT !.dflts = @ + 1]]
     ELSE o

\* load_or_default after path.exists() returned ex.
load_or_default(p, ex, de, d, f) ==
  IF ex THEN load_from_path(p, de, f)
  ELSE [fs |-> p, result |-> Ok(d), fx |-> [f EXCEPT !.dflts = @ + 1]]

\* The branch load_or_write_default takes when the path does not exist.
\* Variant helpers below share it.
write_default(p, ser, d, f, keepErr) ==
  LET w == write(p, Serialize(ser, d))
      g == [f EXCEPT !.dflts = @ + 1, !.sers = @ + 1, !.writeCalls = @ + 1,
                     !.creates = @ + (IF w.created THEN 1 ELSE 0),
                     !.writeErr = w.err]
  IN [fs |-> w.fs,
      result |-> IF keepErr /\ w.err # "none" THEN Io(w.err) ELSE Ok(d),
      fx |-> g]

\* Variant: the early return is missing, the default is written whether or
\* not the path exists.
load_or_write_default_always(p, ex, de, ser, d, f) ==
  write_default(p, ser, d, f, TRUE)

\* Variant: the default is returned without being written.
load_or_write_default_unwritten(p, ex, de, ser, d, f) ==
  IF ex THEN load_from_path(p, de, f)
  ELSE [fs |-> p, result |-> Ok(d),
        fx |-> [f EXCEPT !.dflts = @ + 1, !.sers = @ + 1]]

\* Variant: the result of fs::write is dropped (let _ = fs::write(..)).
load_or_write_default_ignoring(p, ex, de, ser, d, f) ==
  IF ex THEN load_from_path(p, de, f)
  ELSE write_default(p, ser, d, f, FALSE)

\* load_or_write_default after path.exists() returned ex.
load_or_write_default(p, ex, de, ser, d, f) ==
  IF ex THEN load_from_path(p, de, f)
  ELSE LET w == write(p, Serialize(ser, d))
           g == [f EXCEPT !.dflts = @ + 1, !.sers = @ + 1, !.writeCalls = @ + 1,
                          !.creates = @ + (IF w.created THEN 1 ELSE 0),
                          !.writeErr = w.err]
       IN [fs |-> w.fs,
           result |-> IF w.err # "none" THEN Io(w.err) ELSE Ok(d),
           fx |-> g]

----------------------------------------------------------------------------
\* State

NoArgs == [de |-> "none", ser |-> "none", dflt |-> 0]
NoCall == [op |-> "none"]

\* Contents another actor may leave at the path: whole and cut-short
\* serialized configurations.
FileContents ==
  UNION {{Prefix(Serialize(s, v), n) : n \in 0..Len(Serialize(s, v))} :
         s \in Serializers, v \in Values}

Snapshot(p) == [kind |-> p.kind, content |-> p.content, readable |-> p.readable]

\* The call that has just returned, as the next call in succession sees it.
Summary ==
  IF pc = "done" /\ op = "load_or_write_default" /\ ~interfered
  THEN [op |-> op, args |-> args, before |-> before, result |-> result, fx |-> fx]
  ELSE NoCall

Init ==
  /\ fs \in [kind : {"absent"}, content : {<<>>}, searchable : BOOLEAN,
             readable : {TRUE}, writable : BOOLEAN, space : 0..MaxSpace]
  /\ pc = "idle"
  /\ op = "none"
  /\ args = NoArgs
  /\ existsResult = FALSE
  /\ before = Snapshot(fs)
  /\ result = NoResult
  /\ fx = NoFx
  /\ interfered = FALSE
  /\ prev = NoCall

Begin(o, a) ==
  /\ pc \in {"idle", "done"}
  /\ op' = o
  /\ args' = a
  /\ before' = Snapshot(fs)
  /\ interfered' = FALSE
  /\ prev' = Summary

Finish(out) ==
  /\ fs' = out.fs
  /\ result' = out.result
  /\ fx' = out.fx
  /\ pc' = "done"

----------------------------------------------------------------------------
\* The library's operations

LoadFromPath(de) ==
  /\ Begin("load_from_path", [NoArgs EXCEPT !.de = de])
  /\ Finish(load_from_path(fs, de, NoFx))
  /\ existsResult' = FALSE

Check(o, a) ==
  /\ Begin(o, a)
  /\ existsResult' = exists(fs)
  /\ fx' = [NoFx EXCEPT !.statErr = metadata(fs)]
  /\ result' = NoResult
  /\ pc' = "checked"
  /\ UNCHANGED fs

LoadOrDefaultCheck(de, d) ==
  Check("load_or_default", [NoArgs EXCEPT !.de = de, !.dflt = d])

LoadOrDefaultFinish ==
  /\ pc = "checked"
  /\ op = "load_or_default"
  /\ Finish(load_or_default(fs, existsResult, args.de, args.dflt, fx))
  /\ UNCHANGED <<op, args, existsResult, before, interfered, prev>>

LoadOrWriteDefaultCheck(de, ser, d) ==
  Check("load_or_write_default", [de |-> de, ser |-> ser, dflt |-> d])

LoadOrWriteDefaultFinish ==
  /\ pc = "checked"
  /\ op = "load_or_write_default"
  /\ Finish(load_or_write_default(fs, existsResult, args.de, args.ser, args.dflt, fx))
  /\ UNCHANGED <<op, args, existsResult, before, interfered, prev>>

----------------------------------------------------------------------------
\* Other actors on the same filesystem.  A change made while a call is
\* between its existence check and its read or write marks the call
\* interfered; any change ends the succession of calls recorded in prev, and
\* one made after a call returned ends that call's record.

Env(p) ==
  /\ fs' = p
  /\ IF pc = "checked"
     THEN /\ interfered' = TRUE
          /\ prev' = NoCall
          /\ UNCHANGED <<pc, op, args, existsResult, before, result, fx>>
     ELSE /\ pc' = "idle"
          /\ op' = "none"
          /\ args' = NoArgs
          /\ existsResult' = FALSE
          /\ before' = Snapshot(p)
          /\ result' = NoResult
          /\ fx' = NoFx
          /\ interfered' = FALSE
          /\ prev' = NoCall

EnvCreate(c, r) ==
  /\ fs.kind = "absent"
  /\ Len(c) <= fs.space
  /\ Env([fs EXCEPT !.kind = "file", !.content = c, !.readable = r])

EnvMkdir ==
  /\ fs.kind = "absent"
  /\ Env([fs EXCEPT !.kind = "dir"])

EnvDelete ==
  /\ fs.kind # "absent"
  /\ Env([fs EXCEPT !.kind = "absent", !.content = <<>>, !.readable = TRUE])

EnvChmod(s, w) ==
  /\ <<s, w>> # <<fs.searchable, fs.writable>>
  /\ Env([fs EXCEPT !.searchable = s, !.writable = w])

Next ==
  \/ \E de \in Deserializers : LoadFromPath(de)
  \/ \E de \in Deserializers, d \in Values : LoadOrDefaultCheck(de, d)
  \/ LoadOrDefaultFinish
  \/ \E de \in Deserializers, ser \in Serializers, d \in Values :
       LoadOrWriteDefaultCheck(de, ser, d)
  \/ LoadOrWriteDefaultFinish
  \/ \E c \in FileContents, r \in BOOLEAN : EnvCreate(c, r)
  \/ EnvMkdir
  \/ EnvDelete
  \/ \E s \in BOOLEAN, w \in BOOLEAN : EnvChmod(s, w)

Spec == Init /\ [][Next]_vars

TypeOK ==
  /\ fs.kind \in {"absent", "file", "dir"}
  /\ fs.content \in FileContents
  /\ pc \in {"idle", "checked", "done"}
  /\ result.tag \in {"none", "Ok", "Io", "Deserialize"}

----------------------------------------------------------------------------
\* Properties

Returned(o) == pc = "done" /\ op = o

\* serializer and deserializer are inverse on v: the serialized form is text
\* (the deserializer takes &str) and deserializes to v.
Matching(de, ser, v) ==
  /\ ValidUtf8(Serialize(ser, v))
  /\ Deserialize(de, Serialize(ser, v)).ok
  /\ Deserialize(de, Serialize(ser, v)).val = v

\* The previous call was load_or_write_default on a path that did not exist,
\* and nothing else touched the path since.
AfterFreshWrite ==
  /\ pc = "done"
  /\ ~interfered
  /\ prev.op = "load_or_write_default"
  /\ prev.before.kind = "absent"

\* C1: a load_or_write_default call made while a file is present at the path
\* (and no other actor changes the path during the call) leaves the file's
\* bytes as they were and creates or truncates nothing.
C1_ExistingFileNotWritten ==
  (Returned("load_or_write_default") /\ ~interfered /\ before.kind = "file")
    => /\ Snapshot(fs) = before
       /\ fx.creates = 0

C1_Witness ==
  /\ Returned("load_or_write_default")
  /\ ~interfered
  /\ before.kind = "file"
  /\ Len(before.content) = 3
  /\ result.tag = "Ok"

\* C2 as stated: after load_or_write_default on a non-existent path with a
\* default v and a matching serializer, load_from_path with the matching
\* deserializer returns Ok(v) and the file holds serializer(v).
C2_RoundTrip_AsStated ==
  (AfterFreshWrite /\ op = "load_from_path"
     /\ Matching(args.de, prev.args.ser, prev.args.dflt))
    => /\ result.tag = "Ok"
       /\ result.val = prev.args.dflt
       /\ fs.kind = "file"
       /\ fs.content = Serialize(prev.args.ser, prev.args.dflt)

\* C2 (amended): the same, for a first call that returned Ok; and every
\* load_or_write_default that returns Ok on a non-existent path leaves
\* exactly serializer(v) in the file.
C2_RoundTrip ==
  /\ (AfterFreshWrite /\ op = "load_from_path"
        /\ prev.result.tag = "Ok"
        /\ Matching(args.de, prev.args.ser, prev.args.dflt))
       => /\ result.tag = "Ok"
          /\ result.val = prev.args.dflt
          /\ fs.kind = "file"
          /\ fs.content = Serialize(prev.args.ser, prev.args.dflt)
  /\ (Returned("load_or_write_default") /\ ~interfered
        /\ before.kind = "absent" /\ result.tag = "Ok")
       => /\ result.val = args.dflt
          /\ fs.kind = "file"
          /\ fs.content = Serialize(args.ser, args.dflt)

C2_Witness ==
  /\ AfterFreshWrite
  /\ op = "load_from_path"
  /\ prev.result.tag = "Ok"
  /\ prev.args.dflt = 1
  /\ Matching(args.de, prev.args.ser, prev.args.dflt)
  /\ result.tag = "Ok"

\* What C3 promises of two calls in succession on a fresh path.
SecondCallReadsBack ==
  /\ prev.result.tag = "Ok"
  /\ result.tag = "Ok"
  /\ result.val = prev.result.val
  /\ prev.fx.statErr # "none"
  /\ existsResult
  /\ prev.fx.writeCalls = 1
  /\ prev.fx.creates = 1
  /\ fx.writeCalls = 0
  /\ fx.creates = 0
  /\ Snapshot(fs) = before

\* C3 as stated: two load_or_write_default calls in succession on a fresh
\* path return the same value, the first writes, the second only reads.
C3_TwiceInSuccession_AsStated ==
  (AfterFreshWrite /\ op = "load_or_write_default" /\ args = prev.args)
    => SecondCallReadsBack

\* C3 (amended): the same, when the first call returned Ok and the
\* deserializer is the inverse of the serializer on the default.
C3_TwiceInSuccession ==
  (AfterFreshWrite /\ op = "load_or_write_default" /\ args = prev.args
     /\ prev.result.tag = "Ok"
     /\ Matching(args.de, args.ser, args.dflt))
    => SecondCallReadsBack

C3_Witness ==
  /\ AfterFreshWrite
  /\ op = "load_or_write_default"
  /\ args = prev.args
  /\ prev.result.tag = "Ok"
  /\ Matching(args.de, args.ser, args.dflt)
  /\ args.dflt = 1
  /\ result.tag = "Ok"

\* C4: load_or_default on a non-existent path returns Ok(default) without
\* reading, the path is still absent afterwards (unless another actor
\* created it meanwhile), and load_or_default writes nothing in any branch.
C4_DefaultWithoutSideEffect ==
  Returned("load_or_default")
    => /\ fx.writeCalls = 0
       /\ fx.creates = 0
       /\ fx.sers = 0
       /\ ~interfered => Snapshot(fs) = before
       /\ before.kind = "absent"
            => /\ result.tag = "Ok"
               /\ result.val = args.dflt
               /\ fx.reads = 0
               /\ ~interfered => fs.kind = "absent"

C4_Witness ==
  /\ Returned("load_or_default")
  /\ ~interfered
  /\ before.kind = "absent"
  /\ fs.searchable
  /\ fs.writable
  /\ args.dflt = 1
  /\ result.tag = "Ok"

\* A filesystem call of the returned call failed (a path that is simply not
\* there is not a failure of the existence check).
FilesystemFailure ==
  \/ fx.statErr = "PermissionDenied"
  \/ fx.readErr # "none"
  \/ fx.writeErr # "none"

\* C5: no operation returns anything but Io after a filesystem call it made
\* (existence check, read or write) has failed.
C5_FailuresPropagate ==
  (pc = "done" /\ FilesystemFailure) => result.tag = "Io"

\* C6: when the write step of load_or_write_default fails, the call returns
\* the write's Io error and no value, having produced the default once and
\* attempted the write once.
C6_WriteFailure ==
  (Returned("load_or_write_default") /\ fx.writeErr # "none")
    => /\ result.tag = "Io"
       /\ result.io = fx.writeErr
       /\ fx.writeCalls = 1
       /\ fx.dflts = 1
       /\ fx.sers = 1
       /\ fx.reads = 0

C6_Witness ==
  /\ Returned("load_or_write_default")
  /\ before.kind = "absent"
  /\ ~interfered
  /\ fx.writeErr = "StorageFull"
  /\ result.tag = "Io"

\* The file the returned load_from_path read, as text the deserializer
\* rejects.
Rejected ==
  /\ Returned("load_from_path")
  /\ fx.reads = 1
  /\ fx.readErr = "none"
  /\ ~Deserialize(args.de, fs.content).ok

\* C7: load_from_path on content that is read but rejected by the
\* deserializer with e returns Deserialize(e) with that very e, and writes
\* nothing.
C7_DeserializeError ==
  Rejected
    => /\ result.tag = "Deserialize"
       /\ result.e = Deserialize(args.de, fs.content).err
       /\ args.de = "toml" => result.e = [by |-> "toml", at |-> TomlFirstBad(fs.content)]
       /\ args.de = "bare" => result.e = Len(fs.content)
       /\ fx.des = 1
       /\ fx.writeCalls = 0
       /\ Snapshot(fs) = before

C7_Witness ==
  /\ Rejected
  /\ args.de = "toml"
  /\ fs.content = <<ByteR, ByteEq>>
  /\ result.tag = "Deserialize"

\* C8: load_from_path on a non-existent path returns an Io error (NotFound
\* when the path can be looked up), never calls the deserializer and
\* creates nothing.
C8_MissingFile ==
  (Returned("load_from_path") /\ before.kind = "absent")
    => /\ result.tag = "Io"
       /\ fs.searchable => result.io = "NotFound"
       /\ fx.des = 0
       /\ fx.creates = 0
       /\ fs.kind = "absent"

C8_Witness ==
  /\ Returned("load_from_path")
  /\ before.kind = "absent"
  /\ fs.searchable
  /\ result.tag = "Io"

\* C9: when a file exists at the path and nothing changes during the call,
\* load_or_default and load_or_write_default return what load_from_path
\* returns there and call neither the default producer nor the serializer.
C9_DelegatesWhenFileExists ==
  (pc = "done" /\ op \in {"load_or_default", "load_or_write_default"}
     /\ ~interfered /\ before.kind = "file")
    => /\ result = load_from_path(fs, args.de, NoFx).result
       /\ fx.dflts = 0
       /\ fx.sers = 0

\* C10: whatever another actor does between load_or_default's existence
\* check and its read, a check that returned true ends in what
\* load_from_path finds at read time (Io(NotFound) for a file that is gone,
\* never the default), and a check that returned false ends in the default
\* without a read.
C10_CheckThenRead ==
  Returned("load_or_default")
    => /\ existsResult
            => /\ result = load_from_path(fs, args.de, NoFx).result
               /\ fx.reads = 1
               /\ fx.dflts = 0
               /\ (fs.kind = "absent" /\ fs.searchable)
                    => (result.tag = "Io" /\ result.io = "NotFound")
       /\ ~existsResult
            => /\ result.tag = "Ok"
               /\ result.val = args.dflt
               /\ fx.reads = 0

C10_Witness ==
  /\ Returned("load_or_default")
  /\ interfered
  /\ existsResult
  /\ before.kind = "file"
  /\ fs.kind = "absent"
  /\ result.tag = "Io"

====
